---- MODULE Spec2Model ----
(***************************************************************************)
(* Transportation problem solver of src/main.rs: the balance check, the    *)
(* north-west-corner construction, the cost evaluation and the potential   *)
(* method loop with its cycle search (solve, north_west_corner,            *)
(* calculate_total_cost, optimize_by_potentials, find_cycle).              *)
(*                                                                         *)
(* Rows and columns are numbered from 1 here (Rust: from 0).  A matrix is  *)
(* a sequence of rows.  Option<f64> is a sequence: <<>> is None and <<x>>  *)
(* is Some(x).  Every f64 the program computes is a sum or difference of   *)
(* i32 costs, hence an exactly represented integer, so potentials and      *)
(* deltas are integers here.  The i32 values stay far below 2^31 within    *)
(* the bounds, so no wrap-around is modelled.                              *)
(***************************************************************************)
EXTENDS Integers, Sequences, FiniteSets, TLC

\* ---------------------------------------------------------------- bounds
MaxM == 2
MaxN == 2
MaxCells == 4
MaxQty == 3
MaxCost == 2
MaxPlanQty == 2
MaxCalls == 2

\* ------------------------------------------------------ program constants
\* while improved && iteration < 5
MaxIterations == 5
\* let mut min_q = i32::MAX
I32Max == 2147483647

VARIABLES
    supplies,      \* TransportProblem.supplies
    demands,       \* TransportProblem.demands
    costs,         \* TransportProblem.costs
    allocations,   \* TransportPlan.allocations (<<>> while no plan exists)
    total_cost,    \* TransportPlan.total_cost
    improved,      \* optimize_by_potentials: let mut improved
    iteration,     \* optimize_by_potentials: let mut iteration
    pc,            \* position of the caller: start, rejected, planned, loop, done
    entry,         \* "solve": through solve; "optimize": optimize_by_potentials called on a given plan
    call,          \* number of calls of optimize_by_potentials entered so far
    last,          \* what the last loop iteration did (history of its locals)
    prev          \* the plan the previous call returned and whether it ended optimal

vars == <<supplies, demands, costs, allocations, total_cost, improved,
          iteration, pc, entry, call, last, prev>>

\* ---------------------------------------------------------------- helpers
None == <<>>
Some(x) == <<x>>

Min(a, b) == IF a < b THEN a ELSE b

RECURSIVE SumSeq(_)
SumSeq(s) == IF s = <<>> THEN 0 ELSE Head(s) + SumSeq(Tail(s))

NumRows(a) == Len(a)
NumCols(a) == Len(a[1])

\* The k-th cell (k from 0) in row-major order: for i in 0..m { for j in 0..n
CellAt(k, n) == <<(k \div n) + 1, (k % n) + 1>>

RowSums(a) == [i \in 1..Len(a) |-> SumSeq(a[i])]
ColSums(a) == [j \in 1..NumCols(a) |-> SumSeq([i \in 1..Len(a) |-> a[i][j]])]

Zeros(m, n) == [i \in 1..m |-> [j \in 1..n |-> 0]]

\* ------------------------------------------------------------ is_balanced
is_balanced_at_least(sup, dem) == SumSeq(sup) >= SumSeq(dem)
is_balanced(sup, dem) == SumSeq(sup) = SumSeq(dem)

\* ------------------------------------------------------ north_west_corner
\* One pass of the while loop body on the locals
\* (i, j, allocations, supply_remaining, demand_remaining).
NwcStepNoMin(st) ==
    LET a   == st.sr[st.i]
        sr2 == [st.sr EXCEPT ![st.i] = @ - a]
        dr2 == [st.dr EXCEPT ![st.j] = @ - a]
    IN  [i |-> IF sr2[st.i] = 0 THEN st.i + 1 ELSE st.i,
         j |-> IF dr2[st.j] = 0 THEN st.j + 1 ELSE st.j,
         alloc |-> [st.alloc EXCEPT ![st.i][st.j] = a],
         sr |-> sr2, dr |-> dr2]

NwcStep(st) ==
    LET a   == Min(st.sr[st.i], st.dr[st.j])
        sr2 == [st.sr EXCEPT ![st.i] = @ - a]
        dr2 == [st.dr EXCEPT ![st.j] = @ - a]
    IN  [i |-> IF sr2[st.i] = 0 THEN st.i + 1 ELSE st.i,
         j |-> IF dr2[st.j] = 0 THEN st.j + 1 ELSE st.j,
         alloc |-> [st.alloc EXCEPT ![st.i][st.j] = a],
         sr |-> sr2, dr |-> dr2]

RECURSIVE NwcLoop(_, _, _)
NwcLoop(st, m, n) ==
    IF st.i <= m /\ st.j <= n THEN NwcLoop(NwcStep(st), m, n) ELSE st.alloc

\* ---------------------------------------------------- calculate_total_cost
RECURSIVE CostFrom(_, _, _)
CostFrom(c, a, k) ==
    IF k >= Len(a) * NumCols(a) THEN 0
    ELSE LET ij == CellAt(k, NumCols(a))
         IN  a[ij[1]][ij[2]] * c[ij[1]][ij[2]] + CostFrom(c, a, k + 1)

\* the same with the outer loop one row short
calculate_total_cost_short(c, a) ==
    IF Len(a) = 1 THEN 0 ELSE CostFrom(c, [i \in 1..(Len(a) - 1) |-> a[i]], 0)
calculate_total_cost(c, a) == CostFrom(c, a, 0)

north_west_corner_allocations(sup, dem) ==
    NwcLoop([i |-> 1, j |-> 1, alloc |-> Zeros(Len(sup), Len(dem)),
             sr |-> sup, dr |-> dem], Len(sup), Len(dem))

\* ------------------------------------- optimize_by_potentials: potentials
\* The body of the two nested for loops of the propagation, on (u, v, changed).
PotCell(c, a, p, i, j) ==
    IF a[i][j] > 0
    THEN IF p.u[i] # None
         THEN IF p.v[j] = None
              THEN [p EXCEPT !.v[j] = Some(c[i][j] - p.u[i][1]), !.changed = TRUE]
              ELSE p
         ELSE IF p.v[j] # None
              THEN [p EXCEPT !.u[i] = Some(c[i][j] - p.v[j][1]), !.changed = TRUE]
              ELSE p
    ELSE p

\* for i in 0..m { for j in 0..n { ... } }, from cell k on
RECURSIVE PotPass(_, _, _, _)
PotPass(c, a, p, k) ==
    IF k >= Len(a) * NumCols(a) THEN p
    ELSE LET ij == CellAt(k, NumCols(a))
         IN  PotPass(c, a, PotCell(c, a, p, ij[1], ij[2]), k + 1)

\* while changed { changed = false; ... }; passes counts the loop's passes
RECURSIVE PotLoop(_, _, _)
PotLoop(c, a, p) ==
    LET q == PotPass(c, a, [p EXCEPT !.changed = FALSE], 0)
        r == [q EXCEPT !.passes = p.passes + 1]
    IN  IF r.changed THEN PotLoop(c, a, r) ELSE r

\* for i in 0..m { if u[i].is_none() { u[i] = Some(0.0) } }, and the same for v
FillZero(s) == [k \in 1..Len(s) |-> IF s[k] = None THEN 0 ELSE s[k][1]]

\* u = vec![None; m]; v = vec![None; n]; u[0] = Some(0.0); propagate; fill
Potentials(c, a) ==
    LET p0 == [u |-> [i \in 1..Len(a) |-> IF i = 1 THEN Some(0) ELSE None],
               v |-> [j \in 1..NumCols(a) |-> None],
               changed |-> TRUE, passes |-> 0]
        p  == PotLoop(c, a, p0)
    IN  [u |-> FillZero(p.u), v |-> FillZero(p.v), passes |-> p.passes]

\* --------------------------------- optimize_by_potentials: improving cell
Delta(c, pot, i, j) == c[i][j] - (pot.u[i] + pot.v[j])

\* The body of the scan, on (best_i, best_j, best_delta, improved).
ScanCell(c, a, pot, b, i, j) ==
    IF a[i][j] = 0 /\ Delta(c, pot, i, j) < b.best_delta
    THEN [best_i |-> i, best_j |-> j, best_delta |-> Delta(c, pot, i, j),
          improved |-> TRUE]
    ELSE b

RECURSIVE Scan(_, _, _, _, _)
Scan(c, a, pot, b, k) ==
    IF k >= Len(a) * NumCols(a) THEN b
    ELSE LET ij == CellAt(k, NumCols(a))
         IN  Scan(c, a, pot, ScanCell(c, a, pot, b, ij[1], ij[2]), k + 1)

\* best_i = 0; best_j = 0; best_delta = 0.0; improved was set false at the loop head
FindEntering(c, a, pot) ==
    Scan(c, a, pot, [best_i |-> 1, best_j |-> 1, best_delta |-> 0,
                     improved |-> FALSE], 0)

\* if improved && best_delta < -0.0001   (best_delta is an integer: times 10000)
ShouldReallocateSignSlip(b) == b.best_delta * 10000 < 1
ShouldReallocate(b) == b.improved /\ b.best_delta * 10000 < -1

\* ------------------------------------------------------------- find_cycle
\* The four neighbours of (i, j); i.wrapping_sub(1) of 0 is usize::MAX, which
\* fails ni < m, as 0 fails the range test here.
Neighbours(i, j) == << <<i - 1, j>>, <<i + 1, j>>, <<i, j - 1>>, <<i, j + 1>> >>

\* for &(ni, nj) in &[...] { if ni < m && nj < n && allocations[ni][nj] > 0
\*                              && !visited[ni][nj] { ... } }
\* parent[][] is written and never read; it is left out.
RECURSIVE BfsVisit(_, _, _, _)
BfsVisit(a, s, nb, k) ==
    IF k > Len(nb) THEN s
    ELSE LET ni == nb[k][1]
             nj == nb[k][2]
         IN  IF /\ ni >= 1 /\ ni <= Len(a) /\ nj >= 1 /\ nj <= NumCols(a)
                /\ a[ni][nj] > 0 /\ <<ni, nj>> \notin s.visited
             THEN BfsVisit(a, [s EXCEPT !.visited = @ \cup {<<ni, nj>>},
                                        !.queue = Append(@, <<ni, nj>>)], nb, k + 1)
             ELSE BfsVisit(a, s, nb, k + 1)

\* while let Some((i, j)) = queue.pop_front() { ... }; pops counts the passes
RECURSIVE Bfs(_, _)
Bfs(a, s) ==
    IF s.queue = <<>> THEN s
    ELSE LET cur == Head(s.queue)
             s1  == [s EXCEPT !.queue = Tail(@), !.pops = @ + 1]
         IN  Bfs(a, BfsVisit(a, s1, Neighbours(cur[1], cur[2]), 1))

\* for i in 0..m { for j in 0..n { if allocations[i][j] > 0 &&
\*   (i != start_i || j != start_j) { if cycle.len() < 4 { cycle.push((i, j)) } } } }
RECURSIVE CollectBasic(_, _, _, _, _)
CollectBasic(a, si, sj, cyc, k) ==
    IF k >= Len(a) * NumCols(a) THEN cyc
    ELSE LET ij == CellAt(k, NumCols(a))
         IN  IF /\ a[ij[1]][ij[2]] > 0
                /\ (ij[1] # si \/ ij[2] # sj)
                /\ Len(cyc) < 4
             THEN CollectBasic(a, si, sj, Append(cyc, ij), k + 1)
             ELSE CollectBasic(a, si, sj, cyc, k + 1)

\* The Option the function returns (None: <<>>, Some(cycle): <<cycle>>) and
\* the number of queue pops of its search.
find_cycle(a, si, sj) ==
    LET s   == Bfs(a, [queue |-> << <<si, sj>> >>, visited |-> {<<si, sj>>},
                       pops |-> 0])
        cyc == CollectBasic(a, si, sj, << <<si, sj>> >>, 0)
    IN  [result |-> IF Len(cyc) >= 3 THEN Some(Append(cyc, cyc[1])) ELSE None,
         pops |-> s.pops]

\* ----------------------------------- optimize_by_potentials: reallocation
\* for (i, j) in cycle.iter().skip(1).step_by(2) { if a[i][j] < min_q { min_q = a[i][j] } }
RECURSIVE MinDonor(_, _, _, _)
MinDonor(a, cyc, k, q) ==
    IF k > Len(cyc) THEN q
    ELSE MinDonor(a, cyc, k + 2, Min(q, a[cyc[k][1]][cyc[k][2]]))

\* for (idx, (i, j)) in cycle.iter().enumerate() { idx % 2 == 0: += min_q, else -= min_q }
\* Position k here is idx + 1.
RECURSIVE Shift(_, _, _, _)
Shift(a, cyc, k, q) ==
    IF k > Len(cyc) THEN a
    ELSE Shift([a EXCEPT ![cyc[k][1]][cyc[k][2]] =
                    IF k % 2 = 1 THEN @ + q ELSE @ - q], cyc, k + 1, q)

Reallocate(a, cyc) == Shift(a, cyc, 1, MinDonor(a, cyc, 2, I32Max))

\* plan.total_cost = self.calculate_total_cost(&plan.allocations), after the shift
CostNotRecomputed(c, a, tc) == tc
CostAfterReallocation(c, a, tc) == calculate_total_cost(c, a)

\* ------------------------------ optimize_by_potentials: one loop iteration
\* The body of `while improved && iteration < 5` from the potentials on, for
\* the plan (a, tc): the new plan, the new `improved`, and the locals it used.
Iterate(c, a, tc) ==
    LET pot == Potentials(c, a)
        b   == FindEntering(c, a, pot)
        go  == ShouldReallocate(b)
        fc  == IF go THEN find_cycle(a, b.best_i, b.best_j)
                     ELSE [result |-> None, pops |-> 0]
        hit == go /\ fc.result # None
        a2  == IF hit THEN Reallocate(a, fc.result[1]) ELSE a
    IN  [allocations |-> a2,
         total_cost  |-> IF hit THEN CostAfterReallocation(c, a2, tc) ELSE tc,
         improved    |-> b.improved,
         last |-> [ran |-> TRUE,
                   alloc_before |-> a,
                   cost_before |-> tc,
                   u |-> pot.u, v |-> pot.v,
                   passes |-> pot.passes,
                   entering |-> <<b.best_i, b.best_j>>,
                   best_delta |-> b.best_delta,
                   searched |-> go,
                   cycle |-> fc.result,
                   pops |-> fc.pops,
                   reported |-> IF go THEN "improving"
                                ELSE IF ~b.improved THEN "optimal" ELSE "none"]]

NoIteration ==
    [ran |-> FALSE, alloc_before |-> <<>>, cost_before |-> 0, u |-> <<>>,
     v |-> <<>>, passes |-> 0, entering |-> <<>>, best_delta |-> 0,
     searched |-> FALSE, cycle |-> None, pops |-> 0, reported |-> "none"]

NoCall == [allocations |-> <<>>, total_cost |-> 0, optimal |-> FALSE]

\* ------------------------------------------------------------------ inputs
Shapes == {mn \in (1..MaxM) \X (1..MaxN) : mn[1] * mn[2] <= MaxCells}

Matrices(m, n, S) == [1..m -> [1..n -> S]]

\* TransportProblem::new(): the instance the program is built with
NewSupplies == <<200, 150, 150>>
NewDemands == <<90, 100, 70, 130, 110>>
NewCosts == << <<12, 15, 21, 14, 17>>, <<14, 8, 15, 11, 21>>, <<19, 16, 26, 12, 20>> >>

\* ------------------------------------------------------------------- Init
InitCommon ==
    /\ improved = FALSE
    /\ iteration = 0
    /\ call = 0
    /\ last = NoIteration
    /\ prev = NoCall

\* solve() on a problem of a small shape, balanced or not.  An unbalanced
\* problem is rejected before its costs are used for anything but printing, so
\* the unbalanced problems are taken with one cost matrix each.
InitSolve ==
    /\ \E mn \in Shapes :
          /\ supplies \in [1..mn[1] -> 0..MaxQty]
          /\ demands \in [1..mn[2] -> 0..MaxQty]
          /\ IF SumSeq(supplies) = SumSeq(demands)
             THEN costs \in Matrices(mn[1], mn[2], 0..MaxCost)
             ELSE costs = [i \in 1..mn[1] |-> [j \in 1..mn[2] |-> MaxCost]]
    /\ entry = "solve"
    /\ pc = "start"
    /\ allocations = <<>>
    /\ total_cost = 0
    /\ InitCommon

\* solve() on TransportProblem::new(), as main runs it
InitNew ==
    /\ supplies = NewSupplies
    /\ demands = NewDemands
    /\ costs = NewCosts
    /\ entry = "solve"
    /\ pc = "start"
    /\ allocations = <<>>
    /\ total_cost = 0
    /\ InitCommon

\* optimize_by_potentials called on a given plan.  The function reads only
\* the lengths of supplies and demands, so they are taken to be the plan's
\* row and column sums: every matrix is a feasible plan of that problem.
InitOptimize ==
    /\ \E mn \in Shapes :
          /\ allocations \in Matrices(mn[1], mn[2], 0..MaxPlanQty)
          /\ costs \in Matrices(mn[1], mn[2], 0..MaxCost)
    /\ supplies = RowSums(allocations)
    /\ demands = ColSums(allocations)
    /\ total_cost = calculate_total_cost(costs, allocations)
    /\ entry = "optimize"
    /\ pc = "planned"
    /\ InitCommon

Init == InitSolve \/ InitNew \/ InitOptimize

\* ---------------------------------------------------------------- actions
\* while improved && iteration < 5
LoopConditionNoCap(imp, it) == imp
LoopCondition(imp, it) == imp /\ it < MaxIterations

\* solve: if !self.is_balanced() { println!(...); return; }
SolveReject ==
    /\ pc = "start"
    /\ ~is_balanced(supplies, demands)
    /\ pc' = "rejected"
    /\ UNCHANGED <<supplies, demands, costs, allocations, total_cost, improved,
                   iteration, entry, call, last, prev>>

\* solve: let mut plan = self.north_west_corner();
SolveInitialPlan ==
    /\ pc = "start"
    /\ is_balanced(supplies, demands)
    /\ allocations' = north_west_corner_allocations(supplies, demands)
    /\ total_cost' = calculate_total_cost(costs, allocations')
    /\ pc' = "planned"
    /\ UNCHANGED <<supplies, demands, costs, improved, iteration, entry, call,
                   last, prev>>

\* optimize_by_potentials entered: let mut improved = true; let mut iteration = 0;
OptimizeEnter ==
    /\ pc = "planned"
    /\ improved' = TRUE
    /\ iteration' = 0
    /\ call' = call + 1
    /\ pc' = "loop"
    /\ UNCHANGED <<supplies, demands, costs, allocations, total_cost, entry,
                   last, prev>>

\* one pass of while improved && iteration < 5 { improved = false; iteration += 1; ... }
OptimizeIterate ==
    /\ pc = "loop"
    /\ LoopCondition(improved, iteration)
    /\ LET r == Iterate(costs, allocations, total_cost)
       IN  /\ allocations' = r.allocations
           /\ total_cost' = r.total_cost
           /\ improved' = r.improved
           /\ last' = r.last
    /\ iteration' = iteration + 1
    /\ UNCHANGED <<supplies, demands, costs, pc, entry, call, prev>>

\* the loop condition fails: the function returns plan
OptimizeReturn ==
    /\ pc = "loop"
    /\ ~LoopCondition(improved, iteration)
    /\ pc' = "done"
    /\ UNCHANGED <<supplies, demands, costs, allocations, total_cost, improved,
                   iteration, entry, call, last, prev>>

\* optimize_by_potentials called again on the plan it returned
OptimizeAgain ==
    /\ pc = "done"
    /\ call < MaxCalls
    /\ prev' = [allocations |-> allocations, total_cost |-> total_cost,
                 optimal |-> ~improved]
    /\ improved' = TRUE
    /\ iteration' = 0
    /\ call' = call + 1
    /\ last' = NoIteration
    /\ pc' = "loop"
    /\ UNCHANGED <<supplies, demands, costs, allocations, total_cost, entry>>

Next ==
    \/ SolveReject
    \/ SolveInitialPlan
    \/ OptimizeEnter
    \/ OptimizeIterate
    \/ OptimizeReturn
    \/ OptimizeAgain

Spec == Init /\ [][Next]_vars

\* ------------------------------------------------------------- properties
HasPlan == allocations # <<>>

Feasible ==
    /\ RowSums(allocations) = supplies
    /\ ColSums(allocations) = demands

Cells(a) == (1..Len(a)) \X (1..NumCols(a))

\* sum over all cells of allocations[i][j] * costs[i][j], row by row
TrueCost ==
    SumSeq([i \in 1..Len(allocations) |->
              SumSeq([j \in 1..NumCols(allocations) |->
                        allocations[i][j] * costs[i][j]])])

\* C1: for a balanced problem the plan north_west_corner returns has every
\* row sum equal to that row's supply and every column sum equal to that
\* column's demand.
C1_NorthWestCornerFeasible ==
    (entry = "solve" /\ pc = "planned") => Feasible

\* C1 witness: a north-west-corner plan of a 2x2 problem in which a supply and
\* a demand ran out in the same step (the degenerate sweep).
C1_Witness ==
    /\ entry = "solve" /\ pc = "planned"
    /\ Len(supplies) = 2 /\ Len(demands) = 2
    /\ allocations[1][1] > 0 /\ allocations[2][2] > 0
    /\ allocations[1][2] = 0 /\ allocations[2][1] = 0

\* C2: mass conservation: every plan the optimizer holds, started from the
\* (feasible) north-west-corner plan, keeps every row sum equal to the supply and every column
\* sum equal to the demand.
C2_MassConserved ==
    (entry = "solve" /\ HasPlan) => Feasible

\* C3: started from the north-west-corner plan, total_cost after a loop
\* iteration is at most total_cost before that iteration.
C3_CostNeverIncreases ==
    (entry = "solve" /\ call = 1 /\ last.ran) => total_cost <= last.cost_before

\* C4: optimize_by_potentials runs at most 5 loop iterations, the potential
\* propagation of an iteration stops within m + n passes and its cycle search
\* within m * n queue pops, and the function returns only when the cap is
\* reached or no non-basic cell has a negative reduced cost.
C4_TerminatesWithinCap ==
    /\ iteration \in 0..5
    /\ last.ran =>
          /\ iteration >= 1
          /\ last.passes <= Len(supplies) + Len(demands)
          /\ last.pops <= Len(supplies) * Len(demands)
    /\ pc = "done" =>
          /\ last.ran
          /\ \/ iteration = 5
             \/ \A ij \in Cells(allocations) :
                   allocations[ij[1]][ij[2]] = 0 =>
                      costs[ij[1]][ij[2]] - (last.u[ij[1]] + last.v[ij[2]]) >= 0

\* C4 witness: a call that returned at the cap with an improving cell still
\* present, after iterations that needed several propagation passes.
C4_Witness ==
    /\ pc = "done" /\ iteration = 5 /\ improved
    /\ last.passes >= 2 /\ last.pops >= 2

\* C5: when a call ended with no improving cell, the next call on the plan it
\* returned runs one iteration, reports optimal and leaves allocations and
\* total_cost as they were.
C5_IdempotentOnOptimal ==
    (call >= 2 /\ prev.optimal /\ last.ran) =>
        /\ iteration = 1
        /\ ~improved
        /\ last.reported = "optimal"
        /\ allocations = prev.allocations
        /\ total_cost = prev.total_cost

\* C5 witness: the second call has returned on a plan that the first call
\* reached by reallocating and then found optimal.
C5_Witness ==
    /\ pc = "done" /\ call = 2 /\ prev.optimal /\ entry = "solve"
    /\ allocations # north_west_corner_allocations(supplies, demands)

\* C6: an unbalanced problem is rejected before any allocation: no plan is
\* built and optimize_by_potentials is never entered.
C6_UnbalancedRejected ==
    (SumSeq(supplies) # SumSeq(demands)) =>
        /\ pc \in {"start", "rejected"}
        /\ allocations = <<>>
        /\ call = 0

\* C6 witness: solve has returned on a problem with one supplier whose supply
\* is below the total demand of its two consumers.
C6_Witness ==
    /\ pc = "rejected"
    /\ Len(supplies) = 1 /\ Len(demands) = 2
    /\ SumSeq(supplies) < SumSeq(demands)

\* C7: on the instance of TransportProblem::new(), north_west_corner returns
\* [[90,100,10,0,0],[0,0,60,90,0],[0,0,0,40,110]] with total_cost 7360.
C7_NewInstancePlan ==
    (/\ supplies = NewSupplies /\ demands = NewDemands /\ costs = NewCosts
     /\ entry = "solve" /\ pc = "planned") =>
        /\ allocations = << <<90, 100, 10, 0, 0>>, <<0, 0, 60, 90, 0>>,
                            <<0, 0, 0, 40, 110>> >>
        /\ total_cost = 7360

\* C7 witness: the north-west-corner plan of that instance has been built.
C7_Witness ==
    /\ supplies = NewSupplies /\ demands = NewDemands /\ costs = NewCosts
    /\ entry = "solve" /\ pc = "planned" /\ total_cost > 0

\* C8: whenever a plan exists (after north_west_corner and at the end of
\* every loop iteration), total_cost equals the sum over all cells of
\* allocations[i][j] * costs[i][j].
C8_CachedCost ==
    HasPlan => total_cost = TrueCost

\* C8 witness: an iteration started from the north-west-corner plan has
\* shifted goods along a cycle and changed the cost.
C8_Witness ==
    /\ entry = "solve" /\ last.ran /\ last.cycle # None
    /\ allocations # last.alloc_before
    /\ total_cost # last.cost_before

SameRow(x, y) == x[1] = y[1] /\ x[2] # y[2]
SameCol(x, y) == x[2] = y[2] /\ x[1] # y[1]

\* cyc is a closed alternating path from the entering cell e through cells
\* that were basic in plan a0, and the cells whose allocation went down from
\* a0 to a1 are exactly those at its odd (0-based) positions.
IsSteppingStone(cyc, e, a0, a1) ==
    /\ Len(cyc) >= 5
    /\ cyc[1] = e /\ cyc[Len(cyc)] = e
    /\ \A k \in 2..(Len(cyc) - 1) : a0[cyc[k][1]][cyc[k][2]] > 0
    /\ \A k \in 1..(Len(cyc) - 1) :
          SameRow(cyc[k], cyc[k + 1]) \/ SameCol(cyc[k], cyc[k + 1])
    /\ \A k \in 1..(Len(cyc) - 2) :
          SameRow(cyc[k], cyc[k + 1]) # SameRow(cyc[k + 1], cyc[k + 2])
    /\ {ij \in Cells(a0) : a1[ij[1]][ij[2]] < a0[ij[1]][ij[2]]}
         = {cyc[k] : k \in {x \in 1..Len(cyc) : x % 2 = 0}}

\* C9: a cycle find_cycle returns for the entering cell is a closed
\* alternating stepping-stone path whose odd positions are exactly the cells
\* that are decreased.
C9_CycleIsSteppingStone ==
    (entry = "solve" /\ last.searched /\ last.cycle # None) =>
        IsSteppingStone(last.cycle[1], last.entering, last.alloc_before,
                        allocations)

\* C10: when an improving cell was selected and find_cycle returned no cycle,
\* the plan is unchanged, optimality is not reported and the loop does not
\* run another iteration.
C10_StallTerminates ==
    (entry = "solve" /\ pc = "loop" /\ last.searched /\ last.cycle = None) =>
        /\ allocations = last.alloc_before
        /\ total_cost = last.cost_before
        /\ last.reported # "optimal"
        /\ ~LoopCondition(improved, iteration)

====
